---- MODULE Spec2Model ----
(***************************************************************************)
(* State-machine model of the Aavegotchi pet sitter: PetSitterService      *)
(* (start, stop, the monitoring tick, the health check, the action         *)
(* executor with its detached control transaction) together with the       *)
(* AavegotchiContract timing aggregator and verifier and the Telegram      *)
(* notifier.  The chain and the wall clock are the environment.            *)
(*                                                                         *)
(* Every await of the code is a point where another callback may run, so   *)
(* each handler is cut into one action per stretch of synchronous code.    *)
(***************************************************************************)
EXTENDS Integers, Sequences, FiniteSets, TLC

(***************************************************************************)
(* Bounds of the model.                                                    *)
(***************************************************************************)
\* tick bodies (each with the control transaction it detaches) that may be
\* outstanding at the same time
MaxTicks == 2
\* how often the clock may advance (by one pet interval each time)
MaxClockSteps == 1
\* cap of the error counter (failures are not offered once it is reached)
MaxErrors == 1
\* calls of start() that get past the isRunning test
MaxStarts == 1

(***************************************************************************)
(* Program constants.                                                      *)
(***************************************************************************)
\* `undefined` of an optional field (BotStatus.lastPetTime, nextPetTime,
\* PetTargetWithTiming.sharedLastInteracted, PetResult.transactionHash)
None == -1
\* config.petIntervalHours (default of PET_INTERVAL_HOURS)
petIntervalHours == 12
\* PetSitterService.petIntervalMs
petIntervalMs == petIntervalHours * 60 * 60 * 1000
\* the recency window of the verifier, in seconds
RecentWindowS == 3600

\* the token ids tokenIdsOfOwner returns, in the order it returns them
TokenIds == <<1, 2>>
IdSet == {TokenIds[i] : i \in 1..Len(TokenIds)}

\* granularity of the modelled clock, in milliseconds
ClockStep == petIntervalMs
\* Date.now() when the service is constructed
StartNow == 2 * petIntervalMs
\* lastInteracted values (seconds) the entities may start with: never
\* interacted with, a full interval before the start, half an interval
\* before the start
InitTimes == {0, (StartNow - petIntervalMs) \div 1000,
              (StartNow - (petIntervalMs \div 2)) \div 1000}

TickSlots == 1..MaxTicks

VARIABLES
    now,          \* Date.now(), milliseconds
    status,       \* chain: gotchi.status per token id (0 = not claimed)
    lastInteracted, \* chain: gotchi.lastInteracted per token id, seconds
    isRunning,    \* PetSitterService.isRunning
    stats,        \* PetSitterService.stats (BotStatus)
    monitoringInterval,  \* the handle field: TRUE when defined
    healthCheckInterval, \* the handle field: TRUE when defined
    liveMonitors, \* setInterval timers of the monitoring loop not yet cleared
    liveHealth,   \* setInterval timers of the health check not yet cleared
    initialPending, \* one-shot initial checks scheduled and not yet fired
    startPc,      \* position of each start() call in progress
    starts,       \* calls of start() that got past the isRunning test
    tick,         \* per slot: the tick body (checkAndPetIfNeeded) in progress
                  \* and the control transaction it has detached
    ev            \* the step just taken: what it submitted, sent and saw

vars == <<now, status, lastInteracted, isRunning, stats, monitoringInterval,
          healthCheckInterval, liveMonitors, liveHealth, initialPending,
          startPc, starts, tick, ev>>

chainVars == <<status, lastInteracted>>
\* everything but the tick slots, the statistics and the step record
restVars == <<now, status, lastInteracted, isRunning, monitoringInterval,
              healthCheckInterval, liveMonitors, liveHealth, initialPending,
              startPc, starts>>
timerVars == <<monitoringInterval, healthCheckInterval, liveMonitors,
               liveHealth, initialPending>>

(***************************************************************************)
(* JavaScript truthiness of an optional bigint: undefined and 0n are       *)
(* falsy.                                                                  *)
(***************************************************************************)
\* variant: only undefined is falsy
TruthyDefined(x) == x # None

Truthy(x) == x # None /\ x # 0

(***************************************************************************)
(* AavegotchiContract.getAllAavegotchisOfOwnerWithTiming: the loop over    *)
(* the enumerated ids.  `failed` are the ids whose getAavegotchi read      *)
(* throws.  acc = [successful, shared].                                    *)
(***************************************************************************)
SetShared(shared, li) == IF ~Truthy(shared) THEN li ELSE shared

RECURSIVE AggLoop(_, _, _, _, _, _)
AggLoop(ids, i, failed, st, li, acc) ==
    IF i > Len(ids) THEN acc
    ELSE LET id == ids[i] IN
         IF id \in failed THEN AggLoop(ids, i + 1, failed, st, li, acc)
         ELSE IF st[id] # 0
              THEN AggLoop(ids, i + 1, failed, st, li,
                       [successful |-> Append(acc.successful, id),
                        shared |-> SetShared(acc.shared, li[id])])
              ELSE AggLoop(ids, i + 1, failed, st, li, acc)

\* variant: an id whose detail read throws is left out of the batch
getAllAavegotchisOfOwnerWithTimingDropFailed(ids, failed, st, li) ==
    IF Len(ids) = 0
    THEN [allTokenIds |-> <<>>, successfulAavegotchis |-> <<>>,
          sharedLastInteracted |-> None]
    ELSE LET r == AggLoop(ids, 1, failed, st, li,
                          [successful |-> <<>>, shared |-> None])
         IN [allTokenIds |-> SelectSeq(ids, LAMBDA id : id \notin failed),
             successfulAavegotchis |-> r.successful,
             sharedLastInteracted |-> r.shared]

getAllAavegotchisOfOwnerWithTiming(ids, failed, st, li) ==
    IF Len(ids) = 0
    THEN [allTokenIds |-> <<>>, successfulAavegotchis |-> <<>>,
          sharedLastInteracted |-> None]
    ELSE LET r == AggLoop(ids, 1, failed, st, li,
                          [successful |-> <<>>, shared |-> None])
         IN [allTokenIds |-> ids, successfulAavegotchis |-> r.successful,
             sharedLastInteracted |-> r.shared]

\* variant: a batch without timing data is due at once
calculateNextPetTimeNoFallback(petTarget, dateNow) ==
    IF Len(petTarget.allTokenIds) = 0 THEN dateNow + petIntervalMs
    ELSE IF Truthy(petTarget.sharedLastInteracted)
         THEN (petTarget.sharedLastInteracted * 1000) + petIntervalMs
         ELSE dateNow

(***************************************************************************)
(* PetSitterService.calculateNextPetTimeWithTiming                         *)
(***************************************************************************)
calculateNextPetTimeWithTiming(petTarget, dateNow) ==
    IF Len(petTarget.allTokenIds) = 0 THEN dateNow + petIntervalMs
    ELSE IF Truthy(petTarget.sharedLastInteracted)
         THEN (petTarget.sharedLastInteracted * 1000) + petIntervalMs
         ELSE dateNow + petIntervalMs

\* the comparison of checkAndPetIfNeeded: nextPetTime <= now
PetTimeReached(nextPetTime, dateNow) == nextPetTime <= dateNow

\* variant: only the ids whose details were fetched are handed on
PetArgumentFetchedOnly(petTarget) == petTarget.successfulAavegotchis

\* the ids checkAndPetIfNeeded hands to petAllTokenIds
PetArgument(petTarget) == petTarget.allTokenIds

(***************************************************************************)
(* AavegotchiContract.verifyPettingSuccess: the ids counted as updated.    *)
(***************************************************************************)
\* variant: the recency window is two seconds wider
CountsAsUpdatedWide(li, pre, dateNow) ==
    IF Truthy(pre) /\ li > pre THEN TRUE
    ELSE IF ~Truthy(pre) THEN li > (dateNow \div 1000) - (RecentWindowS + 2)
    ELSE FALSE

CountsAsUpdated(li, pre, dateNow) ==
    IF Truthy(pre) /\ li > pre THEN TRUE
    ELSE IF ~Truthy(pre) THEN li > (dateNow \div 1000) - RecentWindowS
    ELSE FALSE

\* variant: a re-fetch that throws ends the verification in its outer catch
verifyPettingSuccessAbort(tokenIds, pre, failed, li, dateNow) ==
    IF \E i \in 1..Len(tokenIds) : tokenIds[i] \in failed
    THEN [success |-> TRUE, updatedTokens |-> <<>>]
    ELSE LET updated == SelectSeq(tokenIds,
                          LAMBDA id : CountsAsUpdated(li[id], pre, dateNow))
         IN [success |-> Len(updated) > 0, updatedTokens |-> updated]

\* variant: an id whose re-fetch throws is taken as updated
verifyPettingSuccessOptimistic(tokenIds, pre, failed, li, dateNow) ==
    LET updated == SelectSeq(tokenIds,
                     LAMBDA id : id \in failed
                                 \/ CountsAsUpdated(li[id], pre, dateNow))
    IN [success |-> Len(updated) > 0, updatedTokens |-> updated]

verifyPettingSuccess(tokenIds, pre, failed, li, dateNow) ==
    LET updated == SelectSeq(tokenIds,
                     LAMBDA id : id \notin failed
                                 /\ CountsAsUpdated(li[id], pre, dateNow))
    IN [success |-> Len(updated) > 0, updatedTokens |-> updated]

\* variant: the catch of verifyPettingSuccess answers failure
verifyThrownPessimistic == [success |-> FALSE, updatedTokens |-> <<>>]

\* the catch of verifyPettingSuccess
verifyThrown == [success |-> TRUE, updatedTokens |-> <<>>]

(***************************************************************************)
(* The chain's interact: block time is the clock in seconds; an entity     *)
(* whose cooldown has not elapsed is left as it is.                        *)
(***************************************************************************)
BlockTime(dateNow) == dateNow \div 1000

InCooldown(id, li, dateNow) ==
    BlockTime(dateNow) < li[id] + (petIntervalMs \div 1000)

ChainInteract(tokenIds, st, li, dateNow) ==
    [id \in IdSet |->
        IF (\E i \in 1..Len(tokenIds) : tokenIds[i] = id)
           /\ st[id] # 0 /\ ~InCooldown(id, li, dateNow)
        THEN BlockTime(dateNow) ELSE li[id]]


(***************************************************************************)
(* Records.                                                                *)
(***************************************************************************)
\* what TelegramService.sendNotification is given, and the caller
Notification(type, from) ==
    [type |-> type, from |-> from, transactionHash |-> "undefined"]

\* a PetResult
PetResult(success, hash, petCount) ==
    [success |-> success, transactionHash |-> hash, petCount |-> petCount]
\* the hash contract.interact returns
TxHash == "0xhash"
NoHash == "undefined"
NoResult == [success |-> FALSE, transactionHash |-> NoHash, petCount |-> None]

\* a PetTargetWithTiming with no ids
EmptyTarget == [allTokenIds |-> <<>>, successfulAavegotchis |-> <<>>,
                sharedLastInteracted |-> None]

\* a slot in which no tick body is in progress
\* pc: where the tick body stands; nextPetTime: the local of
\* checkAndPetIfNeeded; tokenIds, pre: the arguments of petAllTokenIds;
\* control: the ids of the control transaction scheduled and not yet sent;
\* before: the chain's activity times when the primary transaction was
\* submitted, where a specification keeps track of them (the code holds no
\* such value)
FreshTick == [pc |-> "idle", nextPetTime |-> None, tokenIds |-> <<>>,
              pre |-> None, control |-> <<>>, before |-> <<>>]

\* what a slot holds once the tick body has ended
Ended(t) == [FreshTick EXCEPT !.control = t.control]

\* an interact transaction: `early` when some entity it targets is still
\* inside its cooldown at the time it is submitted
NoTx == [kind |-> "none", tokenIds |-> <<>>, early |-> FALSE]

Early(tokenIds, st, li, dateNow) ==
    \E i \in 1..Len(tokenIds) :
        st[tokenIds[i]] # 0 /\ InCooldown(tokenIds[i], li, dateNow)

Tx(kind, tokenIds) ==
    [kind |-> kind, tokenIds |-> tokenIds,
     early |-> Early(tokenIds, status, lastInteracted, now)]

\* the statistics the constructor sets
NewStats == [isRunning |-> FALSE, totalPets |-> 0, errors |-> 0,
             lastPetTime |-> None, nextPetTime |-> None]

\* a BotStatus object handed to a caller: its fields, and whether it is the
\* service's own stats object (live) or an object of its own
NoSnapshot == [value |-> NewStats, live |-> FALSE]

\* what a step that calls no verifier records as the verifier's answer
NoVerification == [success |-> FALSE, updatedTokens |-> <<>>]

\* the record of a step: the action, the tick slot it ran in, the
\* notifications it handed to the notifier, the transaction it submitted,
\* the batch and next pet time a decision computed, the PetResult returned,
\* the status object a caller of getStatus holds,
\* how the submission of a primary transaction went,
\* what the transport did with a notification, the ids an enumeration
\* returned (fetched: those of them whose detail read did not throw),
\* the verifier's answer, the ids the verifier could re-fetch, and whether
\* the verifier answered from its own catch
Step(act, k) ==
    [act |-> act, k |-> k, sent |-> <<>>, tx |-> NoTx,
     petTarget |-> EmptyTarget, nextPetTime |-> None, result |-> NoResult,
     verification |-> NoVerification, fetched |-> {}, threw |-> FALSE,
     snapshot |-> NoSnapshot, delivery |-> "none", enumerated |-> <<>>,
     receipt |-> "none"]

\* the record of a step that submits nothing, sends nothing, and neither
\* decides nor returns
Quiet == Step("quiet", 0)

\* start() is an async method and can be called again while a call is
\* suspended at one of its awaits: the calls that can be in progress at
\* once.  main() makes one call; the second is for callers that overlap.
StartCalls == {1, 2}

\* no call of start() in progress
NoStart == [c \in StartCalls |-> "idle"]

Init ==
    /\ now = StartNow
    /\ status \in [IdSet -> {0, 3}]
    /\ lastInteracted \in [IdSet -> InitTimes]
    /\ \A id \in IdSet : status[id] = 0 => lastInteracted[id] = 0
    /\ isRunning = FALSE
    /\ stats = [isRunning |-> FALSE, totalPets |-> 0, errors |-> 0,
                lastPetTime |-> None, nextPetTime |-> None]
    /\ monitoringInterval = FALSE
    /\ healthCheckInterval = FALSE
    /\ liveMonitors = 0
    /\ liveHealth = 0
    /\ initialPending = 0
    /\ startPc = NoStart
    /\ starts = 0
    /\ tick = [k \in TickSlots |-> FreshTick]
    /\ ev = Quiet

(***************************************************************************)
(* The clock.                                                              *)
(***************************************************************************)
Advance ==
    /\ now < StartNow + MaxClockSteps * ClockStep
    /\ now' = now + ClockStep
    /\ ev' = Quiet
    /\ UNCHANGED <<chainVars, isRunning, stats, timerVars, startPc, starts,
                   tick>>

(***************************************************************************)
(* PetSitterService.start                                                  *)
(***************************************************************************)
\* entry: the isRunning test, then the await of checkConnection
StartEnter(c) ==
    /\ startPc[c] = "idle"
    /\ startPc' = [startPc EXCEPT ![c] = IF isRunning THEN "idle"
                                         ELSE "checks"]
    /\ starts' = IF isRunning THEN starts ELSE starts + 1
    /\ ev' = Quiet
    /\ UNCHANGED <<now, chainVars, isRunning, stats, timerVars, tick>>

\* a call of start(), MaxStarts of them past the isRunning test at most
StartBegin(c) ==
    /\ starts < MaxStarts
    /\ StartEnter(c)

\* the connection check or the validation throws: the catch of start()
StartFail(c) ==
    /\ startPc[c] = "checks"
    /\ isRunning' = FALSE
    /\ stats' = [stats EXCEPT !.isRunning = FALSE]
    /\ ev' = [Step("StartFail", 0) EXCEPT
                 !.sent = <<Notification("error", "start")>>]
    /\ startPc' = [startPc EXCEPT ![c] = "idle"]
    /\ UNCHANGED <<now, chainVars, timerVars, starts, tick>>

\* variant: start() does not look for a claimed entity
StartOkUnchecked(c) ==
    /\ startPc[c] = "checks"
    /\ isRunning' = TRUE
    /\ stats' = [stats EXCEPT !.isRunning = TRUE]
    /\ ev' = [Step("StartOk", 0) EXCEPT
                 !.sent = <<Notification("info", "start")>>]
    /\ startPc' = [startPc EXCEPT ![c] = "info"]
    /\ UNCHANGED <<now, chainVars, timerVars, starts, tick>>

\* both checks pass (some claimed entity was fetched): the flag is set and
\* the start message is awaited
StartOk(c) ==
    /\ startPc[c] = "checks"
    /\ \E id \in IdSet : status[id] # 0
    /\ isRunning' = TRUE
    /\ stats' = [stats EXCEPT !.isRunning = TRUE]
    /\ ev' = [Step("StartOk", 0) EXCEPT
                 !.sent = <<Notification("info", "start")>>]
    /\ startPc' = [startPc EXCEPT ![c] = "info"]
    /\ UNCHANGED <<now, chainVars, timerVars, starts, tick>>

\* startMonitoringLoop and startHealthCheck
StartArm(c) ==
    /\ startPc[c] = "info"
    /\ monitoringInterval' = TRUE
    /\ liveMonitors' = liveMonitors + 1
    /\ initialPending' = initialPending + 1
    /\ healthCheckInterval' = TRUE
    /\ liveHealth' = liveHealth + 1
    /\ startPc' = [startPc EXCEPT ![c] = "idle"]
    /\ ev' = Quiet
    /\ UNCHANGED <<now, chainVars, isRunning, stats, starts, tick>>

(***************************************************************************)
(* PetSitterService.stop                                                   *)
(***************************************************************************)
\* variant: stop() also cancels the control transactions still scheduled
StopCancelsControl ==
    /\ IF ~isRunning
       THEN /\ ev' = Quiet
            /\ UNCHANGED <<isRunning, stats, timerVars, tick>>
       ELSE /\ isRunning' = FALSE
            /\ stats' = [stats EXCEPT !.isRunning = FALSE]
            /\ monitoringInterval' = FALSE
            /\ liveMonitors' = IF monitoringInterval THEN liveMonitors - 1
                               ELSE liveMonitors
            /\ healthCheckInterval' = FALSE
            /\ liveHealth' = IF healthCheckInterval THEN liveHealth - 1
                             ELSE liveHealth
            /\ ev' = [Step("Stop", 0) EXCEPT
                         !.sent = <<Notification("info", "stop")>>]
            /\ tick' = [k \in TickSlots |->
                           [tick[k] EXCEPT !.control = <<>>]]
            /\ UNCHANGED initialPending
    /\ UNCHANGED <<now, chainVars, startPc, starts>>

Stop ==
    /\ IF ~isRunning
       THEN /\ ev' = Quiet
            /\ UNCHANGED <<isRunning, stats, timerVars>>
       ELSE /\ isRunning' = FALSE
            /\ stats' = [stats EXCEPT !.isRunning = FALSE]
            /\ monitoringInterval' = FALSE
            /\ liveMonitors' = IF monitoringInterval THEN liveMonitors - 1
                               ELSE liveMonitors
            /\ healthCheckInterval' = FALSE
            /\ liveHealth' = IF healthCheckInterval THEN liveHealth - 1
                             ELSE liveHealth
            /\ ev' = [Step("Stop", 0) EXCEPT
                         !.sent = <<Notification("info", "stop")>>]
            /\ UNCHANGED initialPending
    /\ UNCHANGED <<now, chainVars, startPc, starts, tick>>

(***************************************************************************)
(* The health check callback of startHealthCheck.                          *)
(***************************************************************************)
HealthOk ==
    /\ liveHealth > 0
    /\ ev' = Quiet
    /\ UNCHANGED <<restVars, stats, tick>>

\* variant: a failed health check also takes the service out of service
HealthFailStops ==
    /\ liveHealth > 0
    /\ stats.errors < MaxErrors
    /\ stats' = [stats EXCEPT !.errors = @ + 1, !.isRunning = FALSE]
    /\ ev' = [Step("HealthFail", 0) EXCEPT
                 !.sent = <<Notification("error", "health")>>]
    /\ isRunning' = FALSE
    /\ UNCHANGED <<now, chainVars, timerVars, startPc, starts, tick>>

HealthFail ==
    /\ liveHealth > 0
    /\ stats.errors < MaxErrors
    /\ stats' = [stats EXCEPT !.errors = @ + 1]
    /\ ev' = [Step("HealthFail", 0) EXCEPT
                 !.sent = <<Notification("error", "health")>>]
    /\ UNCHANGED <<restVars, tick>>

(***************************************************************************)
(* The monitoring tick: the setInterval callback and the one-shot initial  *)
(* check both call checkAndPetIfNeeded.  The callback does nothing before  *)
(* its first await (the enumeration), so the timer's firing is taken       *)
(* together with the enumeration's outcome.                                *)
(***************************************************************************)
IsFree(t) == t.pc = "idle" /\ t.control = <<>>

FreeSlot(k) ==
    /\ IsFree(tick[k])
    /\ \A j \in TickSlots : j < k => ~IsFree(tick[j])

\* variant: the callback wrapper of startMonitoringLoop counts the
\* exception a second time
TickCatchTwice(k) ==
    /\ stats' = [stats EXCEPT !.errors = @ + 2]
    /\ ev' = [Step("TickCatch", k) EXCEPT
                 !.sent = <<Notification("error", "tick")>>]
    /\ tick' = [tick EXCEPT ![k] = Ended(tick[k])]

\* the catch of checkAndPetIfNeeded
TickCatch(k) ==
    /\ stats' = [stats EXCEPT !.errors = @ + 1]
    /\ ev' = [Step("TickCatch", k) EXCEPT
                 !.sent = <<Notification("error", "tick")>>]
    /\ tick' = [tick EXCEPT ![k] = Ended(tick[k])]

\* the enumeration throws
EnumFail(k) ==
    /\ stats.errors < MaxErrors
    /\ TickCatch(k)

\* checkAndPetIfNeeded from the enumeration's result to its next await (or
\* its end); `failed` are the ids whose detail read throws
\* the step record of a tick whose enumeration returned `ids` and whose
\* detail reads threw for the ids in `failed`
Enumerated(k, ids, failed) ==
    [Step("Decide", k) EXCEPT
        !.enumerated = ids,
        !.fetched = {ids[i] : i \in 1..Len(ids)} \ failed]

\* variant: the decision without its test for an empty enumeration
DecideNoEmptyCheck(k, ids, failed) ==
    LET petTarget == getAllAavegotchisOfOwnerWithTiming(
                         ids, failed, status, lastInteracted)
        nextPetTime == calculateNextPetTimeWithTiming(petTarget, now)
    IN IF PetTimeReached(nextPetTime, now)
       THEN /\ tick' = [tick EXCEPT ![k] =
                           [FreshTick EXCEPT
                               !.pc = "interact",
                               !.nextPetTime = nextPetTime,
                               !.tokenIds = PetArgument(petTarget),
                               !.pre = petTarget.sharedLastInteracted]]
            /\ ev' = [Enumerated(k, ids, failed) EXCEPT
                         !.petTarget = petTarget,
                         !.nextPetTime = nextPetTime]
            /\ UNCHANGED stats
       ELSE /\ tick' = [tick EXCEPT ![k] = Ended(tick[k])]
            /\ ev' = [Enumerated(k, ids, failed) EXCEPT
                         !.petTarget = petTarget,
                         !.nextPetTime = nextPetTime]
            /\ stats' = [stats EXCEPT !.nextPetTime = nextPetTime]

Decide(k, ids, failed) ==
    LET petTarget == getAllAavegotchisOfOwnerWithTiming(
                         ids, failed, status, lastInteracted)
        nextPetTime == calculateNextPetTimeWithTiming(petTarget, now)
    IN IF Len(petTarget.allTokenIds) = 0
       THEN /\ tick' = [tick EXCEPT ![k] = Ended(tick[k])]
            /\ ev' = [Enumerated(k, ids, failed) EXCEPT
                         !.petTarget = petTarget]
            /\ UNCHANGED stats
       ELSE IF PetTimeReached(nextPetTime, now)
       THEN /\ tick' = [tick EXCEPT ![k] =
                           [FreshTick EXCEPT
                               !.pc = "interact",
                               !.nextPetTime = nextPetTime,
                               !.tokenIds = PetArgument(petTarget),
                               !.pre = petTarget.sharedLastInteracted]]
            /\ ev' = [Enumerated(k, ids, failed) EXCEPT
                         !.petTarget = petTarget,
                         !.nextPetTime = nextPetTime]
            /\ UNCHANGED stats
       ELSE /\ tick' = [tick EXCEPT ![k] = Ended(tick[k])]
            /\ ev' = [Enumerated(k, ids, failed) EXCEPT
                         !.petTarget = petTarget,
                         !.nextPetTime = nextPetTime]
            /\ stats' = [stats EXCEPT !.nextPetTime = nextPetTime]

\* the enumeration returns
Fetch(k) ==
    \E ids \in {<<>>, TokenIds} : \E failed \in SUBSET IdSet :
        /\ ids = <<>> => failed = {}
        /\ Decide(k, ids, failed)

\* a tick body started by the recurring timer
TickFire ==
    /\ liveMonitors > 0
    /\ \E k \in TickSlots : FreeSlot(k) /\ (EnumFail(k) \/ Fetch(k))
    /\ UNCHANGED restVars

\* the tick body started by the one-shot timer of startMonitoringLoop
InitialFire ==
    /\ initialPending > 0
    /\ initialPending' = initialPending - 1
    /\ \E k \in TickSlots : FreeSlot(k) /\ (EnumFail(k) \/ Fetch(k))
    /\ UNCHANGED <<now, chainVars, isRunning, monitoringInterval,
                   healthCheckInterval, liveMonitors, liveHealth, startPc,
                   starts>>

(***************************************************************************)
(* PetSitterService.petAllTokenIds, called by the tick in slot k.          *)
(***************************************************************************)
\* how contract.interact can go: the receipt reports success, the receipt
\* reports a revert, writing the transaction throws, waiting for the
\* receipt throws
InteractOutcomes == {"success", "reverted", "submitError", "receiptError"}

\* variant: the hash is returned whatever status the receipt reports
interactIgnoresReceipt(outcome) ==
    IF outcome \in {"success", "reverted"}
    THEN [threw |-> FALSE, hash |-> TxHash]
    ELSE [threw |-> TRUE, hash |-> NoHash]

\* AavegotchiContract.interact: returns the hash only after a receipt with
\* status success; a reverted receipt throws 'Transaction failed' inside the
\* try, and the catch wraps and rethrows every error
interact(outcome) ==
    IF outcome = "success"
    THEN [threw |-> FALSE, hash |-> TxHash]
    ELSE [threw |-> TRUE, hash |-> NoHash]

\* variant: the catch of petAllTokenIds rethrows, so the catch of
\* checkAndPetIfNeeded counts and reports the failure once more
SubmitCatchRethrow(k) ==
    /\ stats' = [stats EXCEPT !.errors = @ + 2]
    /\ ev' = [Step("SubmitCatch", k) EXCEPT
                 !.sent = <<Notification("error", "submit"),
                            Notification("error", "tick")>>,
                 !.tx = Tx("primary", tick[k].tokenIds),
                 !.result = PetResult(FALSE, NoHash, 0)]
    /\ tick' = [tick EXCEPT ![k] = Ended(tick[k])]

\* variant: the control transaction is scheduled before the submission,
\* so a submission that throws leaves it scheduled
SubmitCatchWithControl(k) ==
    /\ stats' = [stats EXCEPT !.errors = @ + 1]
    /\ ev' = [Step("SubmitCatch", k) EXCEPT
                 !.sent = <<Notification("error", "submit")>>,
                 !.tx = Tx("primary", tick[k].tokenIds),
                 !.result = PetResult(FALSE, NoHash, 0)]
    /\ tick' = [tick EXCEPT ![k].pc = "record",
                            ![k].control = tick[k].tokenIds]

\* the catch of petAllTokenIds, entered when contract.interact throws
SubmitCatch(k) ==
    /\ stats' = [stats EXCEPT !.errors = @ + 1]
    /\ \E outcome \in InteractOutcomes :
          /\ interact(outcome).threw
          /\ ev' = [Step("SubmitCatch", k) EXCEPT
                       !.sent = <<Notification("error", "submit")>>,
                       !.tx = Tx("primary", tick[k].tokenIds),
                       !.result = PetResult(FALSE, interact(outcome).hash, 0),
                       !.receipt = outcome]
    /\ tick' = [tick EXCEPT ![k].pc = "record"]

\* contract.interact throws (submission error, reverted receipt)
TickInteractThrow(k) ==
    /\ tick[k].pc = "interact"
    /\ stats.errors < MaxErrors
    /\ SubmitCatch(k)
    /\ UNCHANGED restVars

\* variant: no control transaction is scheduled
TickInteractOkNoControl(k) ==
    /\ tick[k].pc = "interact"
    /\ lastInteracted' = ChainInteract(tick[k].tokenIds, status,
                                       lastInteracted, now)
    /\ tick' = [tick EXCEPT ![k].pc = "verify"]
    /\ ev' = [Step("InteractOk", k) EXCEPT
                 !.tx = Tx("primary", tick[k].tokenIds)]
    /\ UNCHANGED <<now, status, isRunning, stats, timerVars, startPc, starts>>

\* contract.interact returns the hash.  The settle delay that follows only
\* postpones the scheduling of the control transaction and the call of the
\* verifier, so it is taken together with the return.
TickInteractOk(k) ==
    /\ tick[k].pc = "interact"
    /\ lastInteracted' = ChainInteract(tick[k].tokenIds, status,
                                       lastInteracted, now)
    /\ tick' = [tick EXCEPT ![k].pc = "verify",
                            ![k].control = tick[k].tokenIds]
    /\ \E outcome \in InteractOutcomes :
          /\ ~interact(outcome).threw
          /\ ev' = [Step("InteractOk", k) EXCEPT
                       !.tx = Tx("primary", tick[k].tokenIds),
                       !.receipt = outcome]
    /\ UNCHANGED <<now, status, isRunning, stats, timerVars, startPc, starts>>

\* variant: a verified pet sets lastPetTime and is not counted
VerifiedStampOnly(k, verification, threw) ==
    IF verification.success
    THEN /\ stats' = [stats EXCEPT !.lastPetTime = now]
         /\ ev' = [Step("Verified", k) EXCEPT
                      !.sent = <<[Notification("success", "pet") EXCEPT
                                     !.transactionHash = TxHash]>>,
                      !.result = PetResult(TRUE, TxHash,
                                           Len(tick[k].tokenIds)),
                      !.verification = verification,
                      !.threw = threw]
         /\ tick' = [tick EXCEPT ![k].pc = "record"]
    ELSE /\ stats' = [stats EXCEPT !.nextPetTime = tick[k].nextPetTime]
         /\ ev' = [Step("Unverified", k) EXCEPT
                      !.result = PetResult(FALSE, TxHash, 0),
                      !.verification = verification,
                      !.threw = threw]
         /\ tick' = [tick EXCEPT ![k] = Ended(tick[k])]

\* variant: an unverified submission is made again at once
VerifiedRetry(k, verification, threw) ==
    IF verification.success
    THEN /\ stats' = [stats EXCEPT !.totalPets = @ + 1, !.lastPetTime = now]
         /\ ev' = [Step("Verified", k) EXCEPT
                      !.sent = <<[Notification("success", "pet") EXCEPT
                                     !.transactionHash = TxHash]>>,
                      !.result = PetResult(TRUE, TxHash,
                                           Len(tick[k].tokenIds)),
                      !.verification = verification,
                      !.threw = threw]
         /\ tick' = [tick EXCEPT ![k].pc = "record"]
    ELSE /\ UNCHANGED stats
         /\ ev' = [Step("Unverified", k) EXCEPT
                      !.result = PetResult(FALSE, TxHash, 0),
                      !.verification = verification,
                      !.threw = threw]
         /\ tick' = [tick EXCEPT ![k].pc = "interact"]

\* variant: a verified pet counts one per id
VerifiedPerToken(k, verification, threw) ==
    IF verification.success
    THEN /\ stats' = [stats EXCEPT !.totalPets = @ + Len(tick[k].tokenIds),
                                   !.lastPetTime = now]
         /\ ev' = [Step("Verified", k) EXCEPT
                      !.sent = <<[Notification("success", "pet") EXCEPT
                                     !.transactionHash = TxHash]>>,
                      !.result = PetResult(TRUE, TxHash,
                                           Len(tick[k].tokenIds)),
                      !.verification = verification,
                      !.threw = threw]
         /\ tick' = [tick EXCEPT ![k].pc = "record"]
    ELSE /\ stats' = [stats EXCEPT !.nextPetTime = tick[k].nextPetTime]
         /\ ev' = [Step("Unverified", k) EXCEPT
                      !.result = PetResult(FALSE, TxHash, 0),
                      !.verification = verification,
                      !.threw = threw]
         /\ tick' = [tick EXCEPT ![k] = Ended(tick[k])]

\* variant: an unverified pet is counted and reported as an error
VerifiedFailureCounted(k, verification, threw) ==
    IF verification.success
    THEN /\ stats' = [stats EXCEPT !.totalPets = @ + 1, !.lastPetTime = now]
         /\ ev' = [Step("Verified", k) EXCEPT
                      !.sent = <<[Notification("success", "pet") EXCEPT
                                     !.transactionHash = TxHash]>>,
                      !.result = PetResult(TRUE, TxHash,
                                           Len(tick[k].tokenIds)),
                      !.verification = verification,
                      !.threw = threw]
         /\ tick' = [tick EXCEPT ![k].pc = "record"]
    ELSE /\ stats' = [stats EXCEPT !.nextPetTime = tick[k].nextPetTime,
                                   !.errors = @ + 1]
         /\ ev' = [Step("Unverified", k) EXCEPT
                      !.sent = <<Notification("error", "submit")>>,
                      !.result = PetResult(FALSE, TxHash, 0),
                      !.verification = verification,
                      !.threw = threw]
         /\ tick' = [tick EXCEPT ![k] = Ended(tick[k])]

\* petAllTokenIds from the verification's result to its next await (the
\* success message) or, when unverified, through the rest of the tick
Verified(k, verification, threw) ==
    IF verification.success
    THEN /\ stats' = [stats EXCEPT !.totalPets = @ + 1, !.lastPetTime = now]
         /\ ev' = [Step("Verified", k) EXCEPT
                      !.sent = <<[Notification("success", "pet") EXCEPT
                                     !.transactionHash = TxHash]>>,
                      !.result = PetResult(TRUE, TxHash,
                                           Len(tick[k].tokenIds)),
                      !.verification = verification,
                      !.threw = threw]
         /\ tick' = [tick EXCEPT ![k].pc = "record"]
    ELSE /\ stats' = [stats EXCEPT !.nextPetTime = tick[k].nextPetTime]
         /\ ev' = [Step("Unverified", k) EXCEPT
                      !.result = PetResult(FALSE, TxHash, 0),
                      !.verification = verification,
                      !.threw = threw]
         /\ tick' = [tick EXCEPT ![k] = Ended(tick[k])]

\* verifyPettingSuccess returns what it counted
TickVerify(k) ==
    /\ tick[k].pc = "verify"
    /\ \E failed \in SUBSET IdSet :
           Verified(k, verifyPettingSuccess(tick[k].tokenIds, tick[k].pre,
                                            failed, lastInteracted, now),
                    FALSE)
    /\ UNCHANGED restVars

\* verifyPettingSuccess itself throws and answers from its catch
TickVerifyThrow(k) ==
    /\ tick[k].pc = "verify"
    /\ Verified(k, verifyThrown, TRUE)
    /\ UNCHANGED restVars

\* variant: the time recorded after a pet is taken from the time of the
\* pet
TickRecordRecomputed(k) ==
    /\ tick[k].pc = "record"
    /\ stats' = [stats EXCEPT !.nextPetTime = now + petIntervalMs]
    /\ tick' = [tick EXCEPT ![k] = Ended(tick[k])]
    /\ ev' = [Step("Record", k) EXCEPT !.nextPetTime = now + petIntervalMs]
    /\ UNCHANGED restVars

\* back in checkAndPetIfNeeded after petAllTokenIds: the last statement
TickRecord(k) ==
    /\ tick[k].pc = "record"
    /\ stats' = [stats EXCEPT !.nextPetTime = tick[k].nextPetTime]
    /\ tick' = [tick EXCEPT ![k] = Ended(tick[k])]
    /\ ev' = [Step("Record", k) EXCEPT !.nextPetTime = tick[k].nextPetTime]
    /\ UNCHANGED restVars

(***************************************************************************)
(* The detached control transaction (the setTimeout of petAllTokenIds).    *)
(***************************************************************************)
ControlOk(k) ==
    /\ tick[k].control # <<>>
    /\ lastInteracted' = ChainInteract(tick[k].control, status,
                                       lastInteracted, now)
    /\ tick' = [tick EXCEPT ![k].control = <<>>]
    /\ ev' = [Step("ControlOk", k) EXCEPT
                 !.sent = <<Notification("info", "control")>>,
                 !.tx = Tx("control", tick[k].control)]
    /\ UNCHANGED <<now, status, isRunning, stats, timerVars, startPc, starts>>

\* variant: a failed control transaction is counted as an error
ControlFailCounted(k) ==
    /\ tick[k].control # <<>>
    /\ tick' = [tick EXCEPT ![k].control = <<>>]
    /\ stats' = [stats EXCEPT !.errors = @ + 1]
    /\ ev' = [Step("ControlFail", k) EXCEPT
                 !.sent = <<Notification("error", "control")>>,
                 !.tx = Tx("control", tick[k].control)]
    /\ UNCHANGED restVars

ControlFail(k) ==
    /\ tick[k].control # <<>>
    /\ tick' = [tick EXCEPT ![k].control = <<>>]
    /\ ev' = [Step("ControlFail", k) EXCEPT
                 !.sent = <<Notification("error", "control")>>,
                 !.tx = Tx("control", tick[k].control)]
    /\ UNCHANGED <<restVars, stats>>

Next ==
    \/ Advance
    \/ StartBegin(1)
    \/ StartFail(1)
    \/ StartOk(1)
    \/ StartArm(1)
    \/ Stop
    \/ HealthOk
    \/ HealthFail
    \/ TickFire
    \/ InitialFire
    \/ \E k \in TickSlots : TickInteractThrow(k)
    \/ \E k \in TickSlots : TickInteractOk(k)
    \/ \E k \in TickSlots : TickVerify(k)
    \/ \E k \in TickSlots : TickVerifyThrow(k)
    \/ \E k \in TickSlots : TickRecord(k)
    \/ \E k \in TickSlots : ControlOk(k)
    \/ \E k \in TickSlots : ControlFail(k)

Spec == Init /\ [][Next]_vars

(***************************************************************************)
(* The service under an environment in which the enumeration always        *)
(* returns the ids and every detail read of every tick throws.  The reads  *)
(* of start() are not a tick's.  Both recurring timers keep firing while   *)
(* they are armed.                                                         *)
(***************************************************************************)
FetchAllFail(k) == Decide(k, TokenIds, IdSet)

TickFireAllFail ==
    /\ liveMonitors > 0
    /\ \E k \in TickSlots : FreeSlot(k) /\ FetchAllFail(k)
    /\ UNCHANGED restVars

InitialFireAllFail ==
    /\ initialPending > 0
    /\ initialPending' = initialPending - 1
    /\ \E k \in TickSlots : FreeSlot(k) /\ FetchAllFail(k)
    /\ UNCHANGED <<now, chainVars, isRunning, monitoringInterval,
                   healthCheckInterval, liveMonitors, liveHealth, startPc,
                   starts>>

NextAllFail ==
    \/ Advance
    \/ StartBegin(1)
    \/ StartFail(1)
    \/ StartOk(1)
    \/ StartArm(1)
    \/ HealthOk
    \/ TickFireAllFail
    \/ InitialFireAllFail

SpecAllFail ==
    /\ Init
    /\ [][NextAllFail]_vars
    /\ WF_vars(StartOk(1)) /\ WF_vars(StartArm(1))
    /\ WF_vars(TickFireAllFail) /\ WF_vars(InitialFireAllFail)
    /\ WF_vars(HealthOk)

(***************************************************************************)
(* Properties.                                                             *)
(***************************************************************************)
\* the step just taken is a tick's decision over a non-empty batch
Decided == ev.act = "Decide" /\ Len(ev.petTarget.allTokenIds) > 0
\* ... and that decision invoked petAllTokenIds
Invoked == Decided /\ tick[ev.k].pc = "interact"

\* C1: whenever a tick invokes the executor, the ids it is handed, and the
\* ids the primary interact transaction then submits, are exactly the ids
\* the enumeration returned, those whose detail read failed and those not
\* claimed included.
C1_SubmitsAllIds ==
    /\ Invoked => tick[ev.k].tokenIds = ev.petTarget.allTokenIds
    /\ ev.tx.kind = "primary" => ev.tx.tokenIds = TokenIds

\* C1 witness: the executor is invoked with an id that is claimed and is
\* not among the fetched ones (its detail read threw)
C1_Witness ==
    /\ Invoked
    /\ \E id \in IdSet :
          /\ status[id] # 0
          /\ \A i \in 1..Len(ev.petTarget.successfulAavegotchis) :
                 ev.petTarget.successfulAavegotchis[i] # id
          /\ \E i \in 1..Len(tick[ev.k].tokenIds) : tick[ev.k].tokenIds[i] = id

\* C2: while the service runs, the enumeration returns the ids and every
\* detail read of every tick fails, the executor is eventually invoked.
C2_EventuallyInvoked ==
    (isRunning /\ liveMonitors > 0)
        ~> (\E k \in TickSlots : tick[k].pc = "interact")

\* the first fetched claimed entity of a batch
FirstClaimed(petTarget) == petTarget.successfulAavegotchis[1]

\* C3: the shared activity time of a batch, when set, is the activity time
\* of the first successfully fetched claimed entity in enumeration order,
\* whatever the times of the later ones.
C3_SharedIsFirstClaimed ==
    (Decided /\ ev.petTarget.sharedLastInteracted # None)
        => /\ Len(ev.petTarget.successfulAavegotchis) > 0
           /\ ev.petTarget.sharedLastInteracted
                  = lastInteracted[FirstClaimed(ev.petTarget)]

\* C4: on a tick over a non-empty batch with a shared activity time T, the
\* next pet time is T (seconds, as milliseconds) plus the interval, and the
\* executor is invoked with all ids and T exactly when now >= next pet time.
C4_DueFromSharedTime ==
    (Decided /\ ev.petTarget.sharedLastInteracted # None)
        => /\ ev.nextPetTime
                 = (ev.petTarget.sharedLastInteracted * 1000) + petIntervalMs
           /\ (tick[ev.k].pc = "interact") <=> (now >= ev.nextPetTime)
           /\ tick[ev.k].pc = "interact"
                 => /\ tick[ev.k].tokenIds = ev.petTarget.allTokenIds
                    /\ tick[ev.k].pre = ev.petTarget.sharedLastInteracted

\* C5: on a tick over a non-empty batch for which no shared activity time
\* was obtained, the next pet time is now plus the interval, the executor
\* is not invoked, and that next pet time is recorded in the statistics.
C5_FallbackWithoutTiming ==
    (Decided /\ ev.petTarget.sharedLastInteracted = None)
        => /\ ev.nextPetTime = now + petIntervalMs
           /\ tick[ev.k].pc = "idle"
           /\ stats.nextPetTime = ev.nextPetTime

\* C5 witness: a decision over all ids with every detail read failed
C5_Witness ==
    /\ Decided
    /\ ev.petTarget.allTokenIds = TokenIds
    /\ ev.petTarget.sharedLastInteracted = None
    /\ stats.nextPetTime = now + petIntervalMs

\* C6: once a primary transaction has been submitted and verified (which
\* sets lastPetTime), no primary transaction is submitted before a full
\* interval has elapsed since then.
C6_OncePerCycle ==
    (ev.tx.kind = "primary" /\ stats.lastPetTime # None)
        => now >= stats.lastPetTime + petIntervalMs

\* the slots in which a tick body is in progress
Running == {k \in TickSlots : tick[k].pc # "idle"}

\* C7: at most one execution of the tick body is in progress at any time,
\* the recurring tick and the initial one-shot check both counted.
C7_TicksNeverOverlap == Cardinality(Running) <= 1

\* C8: no interact transaction, primary or control, is submitted while an
\* entity it targets has been interacted with less than an interval ago.
C8_RespectsCooldown == ev.tx.kind # "none" => ~ev.tx.early

\* C9: an exception raised in a tick (the enumeration failing) is caught in
\* the tick: the step adds exactly one to the error counter, hands exactly
\* one error notification to the notifier, ends the tick body, and leaves
\* the running flag, both timer handles and both recurring timers as they
\* were, so the recurring tick stays armed.
C9_TickExceptionContained ==
    [][ev'.act = "TickCatch"
          => /\ stats'.errors = stats.errors + 1
             /\ ev'.sent = <<Notification("error", "tick")>>
             /\ tick'[ev'.k].pc = "idle"
             /\ isRunning' = isRunning
             /\ stats'.isRunning = stats.isRunning
             /\ monitoringInterval' = monitoringInterval
             /\ liveMonitors' = liveMonitors
             /\ healthCheckInterval' = healthCheckInterval
             /\ liveHealth' = liveHealth]_vars

\* C9 witness: a tick has failed while the service runs, the counter stands
\* at one and the recurring timer is armed
C9_Witness ==
    /\ ev.act = "TickCatch"
    /\ stats.errors = 1
    /\ isRunning /\ monitoringInterval /\ liveMonitors > 0

\* C10: when the primary submission throws, the step adds exactly one to
\* the error counter, leaves totalPets and lastPetTime alone, sends one
\* error and no success notification, and returns success = false with
\* pet count 0; the tick then goes on to its last statement, which adds
\* nothing to the error counter and sends nothing.
C10_SubmissionFailure ==
    [][/\ ev'.act = "SubmitCatch"
          => /\ stats'.errors = stats.errors + 1
             /\ stats'.totalPets = stats.totalPets
             /\ stats'.lastPetTime = stats.lastPetTime
             /\ ev'.sent = <<Notification("error", "submit")>>
             /\ ev'.result.success = FALSE
             /\ ev'.result.petCount = 0
             /\ tick'[ev'.k].pc = "record"
       /\ ev'.act = "Record"
          => /\ stats'.errors = stats.errors
             /\ ev'.sent = <<>>]_vars

\* C10 witness: a primary submission has thrown
C10_Witness ==
    /\ ev.act = "SubmitCatch"
    /\ ev.tx.kind = "primary"
    /\ stats.errors = 1
    /\ stats.totalPets = 0
    /\ ev.result = PetResult(FALSE, NoHash, 0)

(***************************************************************************)
(* The verifier on its own: verifyPettingSuccess called with every         *)
(* combination of target ids, "before" time, activity times and clock      *)
(* drawn from the sets below; `failed` are the ids whose re-fetch throws.  *)
(***************************************************************************)
\* the clock of the call, in seconds
VerifyNowS == StartNow \div 1000
\* activity times around the edge of the recency window
VerifyTimes == {0, VerifyNowS - (RecentWindowS + 1), VerifyNowS - RecentWindowS,
                VerifyNowS - (RecentWindowS - 1), VerifyNowS}
\* the preInteractionTiming argument: left out, or any of the times
VerifyBefore == {None} \cup VerifyTimes
\* the tokenIds argument
VerifyTargets == {TokenIds, <<TokenIds[2]>>, <<TokenIds[2], TokenIds[1]>>}

InitVerify ==
    /\ now \in {StartNow, StartNow + 999}
    /\ status = [id \in IdSet |-> 3]
    /\ lastInteracted \in [IdSet -> VerifyTimes]
    /\ isRunning = FALSE
    /\ stats = [isRunning |-> FALSE, totalPets |-> 0, errors |-> 0,
                lastPetTime |-> None, nextPetTime |-> None]
    /\ monitoringInterval = FALSE
    /\ healthCheckInterval = FALSE
    /\ liveMonitors = 0
    /\ liveHealth = 0
    /\ initialPending = 0
    /\ startPc = NoStart
    /\ starts = 0
    /\ \E ids \in VerifyTargets : \E pre \in VerifyBefore :
          tick = [k \in TickSlots |->
                    IF k = 1 THEN [FreshTick EXCEPT !.pc = "verify",
                                                    !.tokenIds = ids,
                                                    !.pre = pre]
                    ELSE FreshTick]
    /\ ev = Quiet

VerifyCall ==
    /\ tick[1].pc = "verify"
    /\ \E failed \in SUBSET IdSet :
          ev' = [Step("VerifyCall", 1) EXCEPT
                    !.verification =
                        verifyPettingSuccess(tick[1].tokenIds, tick[1].pre,
                                             failed, lastInteracted, now),
                    !.fetched = IdSet \ failed]
    /\ UNCHANGED <<restVars, stats, tick>>

NextVerify == VerifyCall

SpecVerify == InitVerify /\ [][NextVerify]_vars

\* the verifier has just answered a call
Answered == ev.act = "VerifyCall"
\* the ids of the call that were re-fetched
Refetched ==
    {id \in ev.fetched : \E i \in 1..Len(tick[1].tokenIds) :
                            tick[1].tokenIds[i] = id}
\* id is in the updated set the verifier returned
InUpdated(id) ==
    \E i \in 1..Len(ev.verification.updatedTokens) :
        ev.verification.updatedTokens[i] = id

\* C11: when the verification itself throws, the verifier answers
\* success = true with an empty updated set; the step adds nothing to the
\* error counter and sends no error notification.
C11_VerifierThrowIsSuccess ==
    [][ev'.threw
          => /\ ev'.verification.success = TRUE
             /\ ev'.verification.updatedTokens = <<>>
             /\ ev'.act = "Verified"
             /\ stats'.errors = stats.errors
             /\ \A i \in 1..Len(ev'.sent) : ev'.sent[i].type # "error"]_vars

\* C11 witness: a verification that threw has been taken as a success
C11_Witness ==
    /\ ev.threw
    /\ ev.act = "Verified"
    /\ ev.verification.updatedTokens = <<>>
    /\ stats.totalPets = 1
    /\ stats.errors = 0

\* C12: with a "before" time T supplied (T = 0 included), a re-fetched id
\* is counted as updated exactly when its activity time is greater than T.
C12_StrictlyAfterBefore ==
    (Answered /\ tick[1].pre # None)
        => \A id \in Refetched :
              InUpdated(id) <=> lastInteracted[id] > tick[1].pre

\* C13: with no "before" time supplied, a re-fetched id is counted as
\* updated exactly when its activity time lies within the last hour: not
\* at now - 3601 s, but at now - 3599 s.
C13_RecentWithinHour ==
    (Answered /\ tick[1].pre = None)
        => \A id \in Refetched :
              /\ InUpdated(id) <=> lastInteracted[id] + 3600 > BlockTime(now)
              /\ lastInteracted[id] = BlockTime(now) - 3601 => ~InUpdated(id)
              /\ lastInteracted[id] = BlockTime(now) - 3599 => InUpdated(id)

\* C13 witness: of two re-fetched ids the one at now - 3599 s is counted
\* and the one at now - 3601 s is not
C13_Witness ==
    /\ Answered /\ tick[1].pre = None
    /\ \E a, b \in Refetched :
          /\ lastInteracted[a] = BlockTime(now) - 3599 /\ InUpdated(a)
          /\ lastInteracted[b] = BlockTime(now) - 3601 /\ ~InUpdated(b)

\* C14: a verification that does not throw succeeds exactly when some
\* target id was counted as updated, returns exactly the ids so counted,
\* and with every re-fetch failing answers success = false and no ids.
C14_SuccessIffSomeUpdated ==
    Answered
        => /\ ev.verification.success
                 <=> (Len(ev.verification.updatedTokens) > 0)
           /\ \A id \in IdSet :
                 InUpdated(id)
                     <=> /\ id \in Refetched
                         /\ CountsAsUpdated(lastInteracted[id], tick[1].pre,
                                            now)
           /\ Refetched = {}
                 => /\ ev.verification.success = FALSE
                    /\ ev.verification.updatedTokens = <<>>

\* C14 witness: of two target ids one was counted and the re-fetch of the
\* other threw
C14_Witness ==
    /\ Answered
    /\ Len(tick[1].tokenIds) = 2
    /\ Cardinality(Refetched) = 1
    /\ ev.verification.success
    /\ Len(ev.verification.updatedTokens) = 1

\* C15: on verified success the executor adds exactly one to totalPets,
\* sets lastPetTime to the clock, leaves the error counter alone, sends
\* exactly one success notification carrying the transaction hash, and
\* returns success = true with a pet count equal to the number of ids.
C15_VerifiedSuccess ==
    [][ev'.act = "Verified"
          => /\ stats'.totalPets = stats.totalPets + 1
             /\ stats'.lastPetTime = now
             /\ stats'.errors = stats.errors
             /\ Len(ev'.sent) = 1
             /\ ev'.sent[1].type = "success"
             /\ ev'.sent[1].transactionHash = TxHash
             /\ ev'.result
                   = PetResult(TRUE, TxHash, Len(tick[ev'.k].tokenIds))]_vars

\* C15 witness: a pet of two ids has been verified
C15_Witness ==
    /\ ev.act = "Verified"
    /\ ~ev.threw
    /\ stats.totalPets = 1
    /\ stats.lastPetTime = now
    /\ ev.result.petCount = 2

\* C16: on verified failure the executor leaves the error counter,
\* totalPets and lastPetTime alone, sends no notification at all, and
\* returns success = false with pet count 0.
C16_VerifiedFailure ==
    [][ev'.act = "Unverified"
          => /\ stats'.errors = stats.errors
             /\ stats'.totalPets = stats.totalPets
             /\ stats'.lastPetTime = stats.lastPetTime
             /\ ev'.sent = <<>>
             /\ ev'.result.success = FALSE
             /\ ev'.result.petCount = 0]_vars

\* C16 witness: a submitted pet was not verified
C16_Witness ==
    /\ ev.act = "Unverified"
    /\ ev.result = PetResult(FALSE, TxHash, 0)
    /\ stats.errors = 0

C18_ControlLeavesStats ==
    [][ev'.tx.kind = "control"
          => /\ stats' = stats
             /\ tick'[ev'.k].control = <<>>
             /\ tick'[ev'.k].pc = tick[ev'.k].pc
             /\ \A j \in TickSlots : j # ev'.k => tick'[j] = tick[j]
             /\ ev'.result = NoResult
             /\ ev'.act = "ControlFail"
                   => ev'.sent = <<Notification("error", "control")>>]_vars

\* C18 witness: a control transaction has failed after a verified pet
C18_Witness ==
    /\ ev.act = "ControlFail"
    /\ stats.totalPets = 1
    /\ stats.errors = 0

\* C19: once stop() has cleared the timers of a running service, neither
\* the recurring tick nor the recurring health check fires again: a
\* recurring firing happens only while the running flag is set.  (A firing
\* of the recurring tick, unlike the one-shot initial check, leaves
\* initialPending as it was.)
C19_StopCancelsTimers ==
    [][/\ (ev'.act \in {"Decide", "TickCatch"}
             /\ initialPending' = initialPending) => isRunning
       /\ ev'.act = "HealthFail" => isRunning]_vars

\* C20: a start() whose checks fail leaves the running flag false and arms
\* nothing; with no claimed entity start() cannot succeed; and after the
\* first start() has failed no timer is armed.
C20_StartFailsFast ==
    [][/\ ev'.act = "StartFail"
          => /\ isRunning' = FALSE
             /\ stats'.isRunning = FALSE
             /\ startPc'[1] = "idle"
             /\ UNCHANGED timerVars
       /\ (startPc[1] = "checks" /\ \A id \in IdSet : status[id] = 0)
          => ev'.act # "StartOk"
       /\ (ev'.act = "StartFail" /\ starts' = 1)
          => liveMonitors' = 0 /\ liveHealth' = 0 /\ initialPending' = 0]_vars

\* C20 witness: start() has failed for a target with no claimed entity
C20_Witness ==
    /\ ev.act = "StartFail"
    /\ \A id \in IdSet : status[id] = 0
    /\ ~isRunning
    /\ liveMonitors = 0 /\ liveHealth = 0 /\ initialPending = 0

(***************************************************************************)
(* Startup when the enumeration returns the ids and no detail read         *)
(* succeeds: main() goes on to start() (index.ts), whose own read of the   *)
(* entities then decides.                                                  *)
(***************************************************************************)
\* AavegotchiContract.getAllAavegotchisOfOwner: the claimed entities whose
\* detail read did not throw
getAllAavegotchisOfOwner(ids, failed, st) ==
    SelectSeq(ids, LAMBDA id : id \notin failed /\ st[id] # 0)

\* the checks of start() with the connection up and every detail read
\* throwing
StartNoDetails ==
    /\ startPc[1] = "checks"
    /\ IF Len(getAllAavegotchisOfOwner(TokenIds, IdSet, status)) = 0
       THEN StartFail(1)
       ELSE StartOk(1)

NextNoDetails ==
    \/ Advance
    \/ StartBegin(1)
    \/ StartNoDetails
    \/ Stop

SpecNoDetails == Init /\ [][NextNoDetails]_vars

\* C21: when the enumeration returns ids and no detail can be fetched,
\* startup does not abort: once start() has returned the service runs.
C21_StartsWithoutDetails ==
    (starts > 0 /\ startPc[1] = "idle") => isRunning

(***************************************************************************)
(* getStatus on its own: the statistics are drawn from the values below,   *)
(* a caller takes a snapshot and then writes to a field of the object it   *)
(* was handed.                                                             *)
(***************************************************************************)
\* variant: getStatus hands out the stats object itself
getStatusLive(st) == [value |-> st, live |-> TRUE]

\* PetSitterService.getStatus: { ...this.stats }, a new object with the
\* same (primitive) field values
getStatus(st) == [value |-> st, live |-> FALSE]

StatsValues ==
    {st \in [isRunning : BOOLEAN, totalPets : {0, 1}, errors : {0, 1},
             lastPetTime : {None, StartNow},
             nextPetTime : {None, StartNow + petIntervalMs}] :
        (st.totalPets = 0) <=> (st.lastPetTime = None)}

StatusFields == {"isRunning", "totalPets", "errors", "lastPetTime",
                 "nextPetTime"}

\* the object after the caller has written to field f
Spoil(value, f) ==
    CASE f = "isRunning" -> [value EXCEPT !.isRunning = ~@]
      [] f = "totalPets" -> [value EXCEPT !.totalPets = @ + 1]
      [] f = "errors" -> [value EXCEPT !.errors = @ + 1]
      [] f = "lastPetTime" -> [value EXCEPT !.lastPetTime = 0]
      [] f = "nextPetTime" -> [value EXCEPT !.nextPetTime = 0]

InitStatus ==
    /\ now = StartNow
    /\ status = [id \in IdSet |-> 3]
    /\ lastInteracted = [id \in IdSet |-> 0]
    /\ stats \in StatsValues
    /\ isRunning = stats.isRunning
    /\ monitoringInterval = isRunning
    /\ healthCheckInterval = isRunning
    /\ liveMonitors = (IF isRunning THEN 1 ELSE 0)
    /\ liveHealth = (IF isRunning THEN 1 ELSE 0)
    /\ initialPending = 0
    /\ startPc = NoStart
    /\ starts = 1
    /\ tick = [k \in TickSlots |-> FreshTick]
    /\ ev = Quiet

GetStatus ==
    /\ ev' = [Step("getStatus", 0) EXCEPT !.snapshot = getStatus(stats)]
    /\ UNCHANGED <<restVars, stats, tick>>

\* the caller writes to a field of the object the last call handed out
MutateSnapshot ==
    /\ ev.act = "getStatus"
    /\ \E f \in StatusFields :
          LET written == Spoil(ev.snapshot.value, f) IN
          /\ ev' = [Step("mutate", 0) EXCEPT
                       !.snapshot = [ev.snapshot EXCEPT !.value = written]]
          /\ stats' = IF ev.snapshot.live THEN written ELSE stats
    /\ UNCHANGED <<restVars, tick>>

NextStatus == GetStatus \/ MutateSnapshot

SpecStatus == InitStatus /\ [][NextStatus]_vars

\* C22: getStatus returns a copy of the statistics: a call returns the
\* current field values and changes nothing, two calls in a row return
\* equal values, and a write to a returned object leaves the statistics
\* (and so every later snapshot) as they were.
C22_StatusIsCopy ==
    [][/\ ev'.act = "getStatus"
          => /\ ev'.snapshot.value = stats
             /\ stats' = stats
             /\ ev.act = "getStatus" => ev'.snapshot = ev.snapshot
       /\ ev'.act = "mutate"
          => /\ stats' = stats
             /\ ev'.snapshot.value # stats']_vars

\* C22 witness: the caller's object has been written to and the
\* statistics still hold the value it was copied from
C22_Witness ==
    /\ ev.act = "mutate"
    /\ ev.snapshot.value.totalPets = stats.totalPets + 1
    /\ stats.totalPets = 1

\* C23: while the service is running, every error notification sent is for
\* a submission failure, a tick failure or a control-action failure.
C23_OnlyThreeErrorSources ==
    isRunning =>
        \A i \in 1..Len(ev.sent) :
            ev.sent[i].type = "error"
                => ev.sent[i].from \in {"submit", "tick", "control"}

(***************************************************************************)
(* The notifier on its own: each call site of the service hands a          *)
(* notification to TelegramService, the transport delivers it, answers     *)
(* with a non-OK response or fails, and the caller goes on according to    *)
(* whether the call raised.                                                *)
(***************************************************************************)
\* fetch resolves with response.ok, resolves with a non-OK response, rejects
Deliveries == {"ok", "notOk", "networkError"}

\* variant: the catch of sendNotification throws the error on
sendNotificationRethrow(notification, delivery) ==
    [delivered |-> delivery = "ok", raised |-> delivery # "ok"]

\* TelegramService.sendNotification: the whole body is in a try whose
\* catch logs and returns; a non-OK response throws inside that try
sendNotification(notification, delivery) ==
    [delivered |-> delivery = "ok", raised |-> FALSE]

\* sendSuccess, sendError and sendInfo build the notification and await
\* sendNotification
sendSuccess(from, delivery) ==
    sendNotification(Notification("success", from), delivery)

sendError(from, delivery) ==
    sendNotification(Notification("error", from), delivery)

sendInfo(from, delivery) ==
    sendNotification(Notification("info", from), delivery)

Send(type, from, delivery) ==
    CASE type = "success" -> sendSuccess(from, delivery)
      [] type = "error" -> sendError(from, delivery)
      [] type = "info" -> sendInfo(from, delivery)

\* the calls the service makes, by type and place, and whether the
\* service's flag is set at that place
NotifierSites ==
    {<<"info", "start", TRUE>>, <<"error", "start", FALSE>>,
     <<"info", "stop", FALSE>>, <<"error", "health", TRUE>>,
     <<"error", "tick", TRUE>>, <<"error", "submit", TRUE>>,
     <<"success", "pet", TRUE>>, <<"info", "control", TRUE>>,
     <<"error", "control", TRUE>>}

\* one call: what a raise would do depends on the place.  In start() it
\* reaches the catch that clears the flag and rejects; in stop() it rejects
\* stop(); anywhere in a tick or in the health check it reaches a catch
\* that counts an error.
NotifierCall ==
    \E site \in NotifierSites : \E delivery \in Deliveries :
        LET type == site[1]
            from == site[2]
            done == Send(type, from, delivery)
        IN /\ isRunning = site[3]
           /\ ev' = [Step("Notify", 0) EXCEPT
                        !.sent = <<Notification(type, from)>>,
                        !.delivery = delivery,
                        !.threw = done.raised]
           /\ isRunning' = IF done.raised /\ from = "start"
                           THEN FALSE ELSE isRunning
           /\ stats' = IF ~done.raised THEN stats
                       ELSE IF from = "start"
                            THEN [stats EXCEPT !.isRunning = FALSE]
                       ELSE IF from = "stop" THEN stats
                       ELSE [stats EXCEPT !.errors = @ + 1]
           /\ UNCHANGED <<now, chainVars, timerVars, startPc, starts,
                          tick>>

NextNotify == NotifierCall

SpecNotify == InitStatus /\ [][NextNotify]_vars

\* C24: a notifier call never raises to its caller, whatever the transport
\* does: the caller sees no exception, the error counter and the running
\* flag stay as they were.
C24_NotifierNeverRaises ==
    [][ev'.act = "Notify"
          => /\ ~ev'.threw
             /\ stats' = stats
             /\ isRunning' = isRunning]_vars

\* C24 witness: an error notification met a transport failure and the
\* call returned normally
C24_Witness ==
    /\ ev.act = "Notify"
    /\ ev.delivery = "networkError"
    /\ ev.sent[1].type = "error"
    /\ ~ev.threw

\* C25: a tick whose enumeration returns no id is skipped: it submits
\* nothing, sends nothing, leaves the statistics (error counter, totalPets,
\* lastPetTime, nextPetTime) and the chain as they were, and its body ends.
C25_EmptyEnumerationSkipped ==
    [][(ev'.act = "Decide" /\ Len(ev'.petTarget.allTokenIds) = 0)
          => /\ ev'.tx = NoTx
             /\ ev'.sent = <<>>
             /\ stats' = stats
             /\ tick'[ev'.k].pc = "idle"
             /\ UNCHANGED chainVars]_vars

\* C25 witness: a tick of the running service has met an empty enumeration
C25_Witness ==
    /\ ev.act = "Decide"
    /\ Len(ev.petTarget.allTokenIds) = 0
    /\ stats.isRunning
    /\ stats.nextPetTime = None

\* C26: in the aggregator a detail read that throws is swallowed.  The
\* batch holds every enumerated id, the failing ones included; its fetched
\* records are exactly the enumerated ids whose read succeeded and whose
\* entity is claimed, in enumeration order, so the ids after a failing one
\* are still read; the call returns (the tick reaches its decision, it is
\* not a tick failure), and no error is counted and nothing is sent.
C26_FetchFailureSwallowed ==
    [][ev'.act = "Decide"
          => /\ ev'.petTarget.allTokenIds = ev'.enumerated
             /\ ev'.petTarget.successfulAavegotchis
                    = SelectSeq(ev'.enumerated,
                          LAMBDA id : id \in ev'.fetched /\ status[id] # 0)
             /\ stats'.errors = stats.errors
             /\ ev'.sent = <<>>]_vars

\* C26 witness: the read of the first id threw, the id is in the batch and
\* the second id was fetched all the same
C26_Witness ==
    /\ ev.act = "Decide"
    /\ ev.enumerated = TokenIds
    /\ ev.fetched = {TokenIds[2]}
    /\ ev.petTarget.allTokenIds = TokenIds
    /\ ev.petTarget.successfulAavegotchis = <<TokenIds[2]>>

\* C27: in the verifier a re-fetch that throws is skipped: the call still
\* answers without throwing, an id whose re-fetch threw is never among the
\* updated ids, every other target id is still evaluated (it is among the
\* updated ids whenever its activity time counts), no error is counted and
\* nothing is sent.
C27_RefetchFailureSkipped ==
    Answered
        => /\ ~ev.threw
           /\ \A id \in IdSet \ ev.fetched : ~InUpdated(id)
           /\ \A id \in Refetched :
                 CountsAsUpdated(lastInteracted[id], tick[1].pre, now)
                     => InUpdated(id)
           /\ stats.errors = 0
           /\ ev.sent = <<>>

\* C27 witness: the re-fetch of the first target id threw and the second,
\* evaluated after it, was counted as updated
C27_Witness ==
    /\ Answered
    /\ Len(tick[1].tokenIds) = 2
    /\ tick[1].tokenIds[1] \notin ev.fetched
    /\ InUpdated(tick[1].tokenIds[2])
    /\ ~InUpdated(tick[1].tokenIds[1])
    /\ CountsAsUpdated(lastInteracted[tick[1].tokenIds[1]], tick[1].pre, now)

\* C28: a firing of the health check, with connectivity up or lost, only
\* reports: it submits no transaction, leaves every timer (the monitoring
\* interval, the one-shot check and the health check itself) armed as it
\* was, leaves every tick body where it stood and the chain untouched, and
\* leaves isRunning, totalPets, lastPetTime and nextPetTime unchanged.
C28_HealthCheckOnlyReports ==
    [][(HealthOk \/ HealthFail)
          => /\ ev'.tx = NoTx
             /\ UNCHANGED <<timerVars, tick, chainVars, isRunning>>
             /\ stats'.isRunning = stats.isRunning
             /\ stats'.totalPets = stats.totalPets
             /\ stats'.lastPetTime = stats.lastPetTime
             /\ stats'.nextPetTime = stats.nextPetTime]_vars

\* C28 witness: the health check has found connectivity lost while a tick
\* body was in progress, and the service and both timers are still on
C28_Witness ==
    /\ ev.act = "HealthFail"
    /\ isRunning
    /\ monitoringInterval
    /\ healthCheckInterval
    /\ liveMonitors > 0
    /\ \E k \in TickSlots : tick[k].pc # "idle"

\* C29: within one tick the executor makes at most one primary submission,
\* a single transaction with all the ids of the batch, and never retries
\* it: a tick body comes to its submission only from its own decision that
\* the pet time is reached, with the whole enumeration as argument; a
\* primary transaction is sent only from there, carries those ids, and
\* moves the body on, whether it succeeded or threw; no later step of the
\* body leads back.
C29_OnePrimaryPerTick ==
    [][/\ \A k \in TickSlots :
            (tick'[k].pc = "interact" /\ tick'[k] # tick[k])
                => /\ tick[k].pc = "idle"
                   /\ ev'.act = "Decide" /\ ev'.k = k
                   /\ tick'[k].tokenIds = ev'.petTarget.allTokenIds
                   /\ PetTimeReached(ev'.nextPetTime, now)
       /\ ev'.tx.kind = "primary"
            => /\ tick[ev'.k].pc = "interact"
               /\ tick'[ev'.k].pc \in {"verify", "record"}
               /\ ev'.tx.tokenIds = tick[ev'.k].tokenIds]_vars

\* C29 witness: a tick's only submission went unverified and the tick body
\* has ended
C29_Witness ==
    /\ ev.act = "Unverified"
    /\ ~ev.verification.success
    /\ tick[ev.k].pc = "idle"
    /\ tick[ev.k].control = TokenIds

\* C30: when the primary submission throws, the tick ends without
\* verification and without another submission: the catch leaves the chain
\* as it was, calls no verifier and schedules no control transaction, and
\* all that follows in that tick body is the recording of nextPetTime.
C30_ThrowEndsTick ==
    [][/\ ev'.act = "SubmitCatch"
            => /\ tick'[ev'.k].pc = "record"
               /\ tick'[ev'.k].control = <<>>
               /\ ev'.verification = NoVerification
               /\ UNCHANGED chainVars
       /\ \A k \in TickSlots :
            (tick[k].pc = "record" /\ tick[k].control = <<>>
                                   /\ tick'[k] # tick[k])
                => /\ ev'.act = "Record" /\ ev'.k = k
                   /\ ev'.tx = NoTx
                   /\ ev'.verification = NoVerification
                   /\ tick'[k] = FreshTick
                   /\ UNCHANGED chainVars]_vars

\* C30 witness: the primary submission of both ids has thrown; the body
\* stands before its last statement with no control transaction scheduled
C30_Witness ==
    /\ ev.act = "SubmitCatch"
    /\ ev.tx = Tx("primary", TokenIds)
    /\ tick[ev.k].pc = "record"
    /\ tick[ev.k].control = <<>>
    /\ ev.verification = NoVerification

\* C31: interact returns a transaction hash only when the receipt reports
\* success; a reverted receipt and every error while submitting or waiting
\* for the receipt are thrown, and the executor handles each of them as a
\* submission failure: one error counted, one error notification, a result
\* without hash, no verification.
C31_HashOnlyOnSuccess ==
    [][ev'.tx.kind = "primary"
          => /\ ev'.receipt \in InteractOutcomes
             /\ ev'.act = "InteractOk" <=> ev'.receipt = "success"
             /\ ev'.receipt # "success"
                   => /\ ev'.act = "SubmitCatch"
                      /\ stats'.errors = stats.errors + 1
                      /\ stats'.totalPets = stats.totalPets
                      /\ ev'.sent = <<Notification("error", "submit")>>
                      /\ ev'.result = PetResult(FALSE, NoHash, 0)
                      /\ tick'[ev'.k].pc = "record"]_vars

\* C31 witness: the receipt of a primary transaction reported a revert and
\* the executor answered with a failure
C31_Witness ==
    /\ ev.act = "SubmitCatch"
    /\ ev.receipt = "reverted"
    /\ ev.result.transactionHash = NoHash
    /\ ~ev.result.success

(***************************************************************************)
(* The service over a chain on which both entities are claimed and due at  *)
(* startup, with the timer of every scheduled control transaction          *)
(* eventually firing: setTimeout callbacks are run by the event loop       *)
(* whatever the service's flag says.                                       *)
(***************************************************************************)
InitDue ==
    /\ Init
    /\ status = [id \in IdSet |-> 3]
    /\ lastInteracted = [id \in IdSet |-> (StartNow - petIntervalMs) \div 1000]

SpecControl ==
    /\ InitDue
    /\ [][Next]_vars
    /\ \A k \in TickSlots : WF_vars(ControlOk(k) \/ ControlFail(k))

\* C32: a control transaction that is scheduled when stop() is called is
\* not cancelled: stop() leaves it scheduled, and a scheduled control
\* transaction is in the end submitted, with the same ids, whether the
\* service is running or stopped.
C32_ControlSurvivesStop ==
    /\ [][ev'.act = "Stop"
            => \A k \in TickSlots : tick'[k].control = tick[k].control]_vars
    /\ \A k \in TickSlots :
          (tick[k].control = TokenIds)
              ~> (ev.tx.kind = "control" /\ ev.k = k
                                         /\ ev.tx.tokenIds = TokenIds)

\* C32 witness: a control transaction was submitted while the service was
\* stopped
C32_Witness ==
    /\ ev.act = "ControlOk"
    /\ ev.tx.kind = "control"
    /\ ~isRunning
    /\ ~stats.isRunning
    /\ starts > 0

(***************************************************************************)
(* The service with the chain's activity times at each primary submission  *)
(* kept in the tick's slot until the tick body ends, over a chain on which *)
(* both entities are claimed and due at startup.                           *)
(***************************************************************************)
TickInteractOkTracked(k) ==
    /\ tick[k].pc = "interact"
    /\ lastInteracted' = ChainInteract(tick[k].tokenIds, status,
                                       lastInteracted, now)
    /\ tick' = [tick EXCEPT ![k].pc = "verify",
                            ![k].control = tick[k].tokenIds,
                            ![k].before = lastInteracted]
    /\ \E outcome \in InteractOutcomes :
          /\ ~interact(outcome).threw
          /\ ev' = [Step("InteractOk", k) EXCEPT
                       !.tx = Tx("primary", tick[k].tokenIds),
                       !.receipt = outcome]
    /\ UNCHANGED <<now, status, isRunning, stats, timerVars, startPc, starts>>

NextTracked ==
    \/ Advance
    \/ StartBegin(1)
    \/ StartFail(1)
    \/ StartOk(1)
    \/ StartArm(1)
    \/ Stop
    \/ HealthOk
    \/ HealthFail
    \/ TickFire
    \/ InitialFire
    \/ \E k \in TickSlots : TickInteractThrow(k)
    \/ \E k \in TickSlots : TickInteractOkTracked(k)
    \/ \E k \in TickSlots : TickVerify(k)
    \/ \E k \in TickSlots : TickVerifyThrow(k)
    \/ \E k \in TickSlots : TickRecord(k)
    \/ \E k \in TickSlots : ControlOk(k)
    \/ \E k \in TickSlots : ControlFail(k)

SpecTracked == InitDue /\ [][NextTracked]_vars

\* C33: a verification that reports success for a "before" time taken from
\* the batch's shared activity time reflects a real effect of the action:
\* some target entity's activity time is then greater than that entity's
\* own activity time when the action was submitted.
C33_SuccessIsRealEffect ==
    (ev.act = "Verified" /\ ~ev.threw /\ tick[ev.k].pre # None)
        => \E i \in 1..Len(tick[ev.k].tokenIds) :
              lastInteracted[tick[ev.k].tokenIds[i]]
                  > tick[ev.k].before[tick[ev.k].tokenIds[i]]

\* C34: once stop() has returned after a successful start() (the flag is
\* false, no start() is in progress and the recurring timers are
\* cancelled), no tick body begins any more, the one-shot initial check
\* included.
C34_NoTickAfterStop ==
    [][(~isRunning /\ startPc = NoStart /\ liveMonitors = 0)
          => ev'.act \notin {"Decide", "TickCatch"}]_vars

\* C35: whenever the running flag is false and no start() is in progress
\* (stop() has no await before it has cleared the timers), neither
\* recurring timer is armed.
C35_StoppedMeansDisarmed ==
    (~isRunning /\ startPc = NoStart)
        => /\ liveMonitors = 0 /\ liveHealth = 0
           /\ ~monitoringInterval /\ ~healthCheckInterval

(***************************************************************************)
(* start() and stop() on their own, as callers of the service can          *)
(* interleave them: a call of start() may begin while another is           *)
(* suspended at an await, one call per member of StartCalls.               *)
(***************************************************************************)
StartCall(c) ==
    /\ starts < Cardinality(StartCalls)
    /\ StartEnter(c)

NextStarts ==
    \/ \E c \in StartCalls : StartCall(c)
    \/ \E c \in StartCalls : StartFail(c)
    \/ \E c \in StartCalls : StartOk(c)
    \/ \E c \in StartCalls : StartArm(c)
    \/ Stop

SpecStarts == Init /\ [][NextStarts]_vars

\* C36: at most one scheduling timer and one health-check timer are armed
\* at any time, whatever the interleaving of start() and stop() calls.
C36_OneTimerPair == liveMonitors <= 1 /\ liveHealth <= 1

\* C37: over every step (start, stop, ticks, health checks, control
\* transactions) totalPets and errors never decrease, totalPets changes
\* only by one and only in the step of an executor invocation whose
\* verification succeeded, and lastPetTime is defined exactly when
\* totalPets is positive.
C37_CountersMonotonic ==
    [][/\ stats'.totalPets >= stats.totalPets
       /\ stats'.errors >= stats.errors
       /\ stats'.totalPets # stats.totalPets
             => /\ stats'.totalPets = stats.totalPets + 1
                /\ ev'.act = "Verified"
                /\ ev'.verification.success
       /\ (stats.lastPetTime # None) <=> (stats.totalPets > 0)
       /\ (stats'.lastPetTime # None) <=> (stats'.totalPets > 0)]_vars

\* C37 witness: the service has counted a pet and an error and has been
\* stopped since
C37_Witness ==
    /\ stats.totalPets = 1
    /\ stats.errors = 1
    /\ stats.lastPetTime # None
    /\ ~stats.isRunning
    /\ ev.act = "Stop"

\* C38: a tick over a non-empty batch that ends without a tick-level
\* exception leaves in stats.nextPetTime the next pet time it computed
\* before its decision.  Not due, the decision records it at once; due, the
\* value is kept as it is while the executor runs and recorded when the
\* body ends, so what is recorded after an executor invocation is not
\* recomputed and is not later than the clock.
C38_RecordsComputedTime ==
    [][/\ (ev'.act = "Decide" /\ Len(ev'.petTarget.allTokenIds) > 0)
             => /\ ev'.nextPetTime
                      = calculateNextPetTimeWithTiming(ev'.petTarget, now)
                /\ IF tick'[ev'.k].pc = "interact"
                   THEN /\ tick'[ev'.k].nextPetTime = ev'.nextPetTime
                        /\ ev'.nextPetTime <= now
                   ELSE /\ tick'[ev'.k].pc = "idle"
                        /\ stats'.nextPetTime = ev'.nextPetTime
       /\ \A k \in TickSlots :
             /\ (tick[k].pc \in {"interact", "verify", "record"}
                    /\ tick'[k].pc # "idle")
                   => tick'[k].nextPetTime = tick[k].nextPetTime
             /\ (tick[k].pc \in {"interact", "verify", "record"}
                    /\ tick'[k].pc = "idle")
                   => /\ stats'.nextPetTime = tick[k].nextPetTime
                      /\ stats'.nextPetTime <= now']_vars

\* C38 witness: a tick has petted and then recorded the time it had
\* computed before, which lies a whole interval before the next time the
\* entities can be petted
C38_Witness ==
    /\ ev.act = "Record"
    /\ stats.totalPets = 1
    /\ stats.nextPetTime = ev.nextPetTime
    /\ stats.nextPetTime <= stats.lastPetTime

(***************************************************************************)
(* The three places that test an activity time for truthiness, called      *)
(* over the inputs of the verifier's harness (activity times and "before"  *)
(* times that include 0): the aggregator with the scheduler's calculation  *)
(* on its result, and the verifier.                                        *)
(***************************************************************************)
AggregateCall ==
    \E failed \in SUBSET IdSet :
        LET petTarget == getAllAavegotchisOfOwnerWithTiming(
                             TokenIds, failed, status, lastInteracted)
        IN /\ ev' = [Step("AggregateCall", 1) EXCEPT
                        !.petTarget = petTarget,
                        !.nextPetTime =
                            calculateNextPetTimeWithTiming(petTarget, now),
                        !.enumerated = TokenIds,
                        !.fetched = IdSet \ failed]
           /\ UNCHANGED <<restVars, stats, tick>>

NextZero == AggregateCall \/ VerifyCall

SpecZero == InitVerify /\ [][NextZero]_vars

\* the fetched claimed entities of the batch whose activity time is not 0
NonZero(petTarget) ==
    SelectSeq(petTarget.successfulAavegotchis,
              LAMBDA id : lastInteracted[id] # 0)

====
